---- MODULE Spec2Model ----
(***************************************************************************)
(* A model of the UEFI bootloader entry point (main), its panic handler,   *)
(* the ACPI root-pointer lookup, the ELF segment mapper and the            *)
(* Boot -> Runtime context transition.                                     *)
(***************************************************************************)
EXTENDS Integers, Sequences, FiniteSets, TLC

VARIABLES
    binary,         \* which entry point runs: uefi-bootloader/src/main.rs or src/lib.rs
    pc,             \* the statement of main (or the panic handler) that runs next
    SYSTEM_TABLE,   \* static mut SYSTEM_TABLE: None or Some(pointer to main's system_table)
    slotWrites,     \* every value written to SYSTEM_TABLE, in order
    system_table,   \* where the SystemTable<Boot> value lives: "main", "BootContext", "exited"
    firmware,       \* boot services: active flag, log of calls, page allocation state
    gop,            \* what the firmware answered about the graphics output protocol
    frame_buffer,   \* main's frame_buffer: Option<FrameBuffer>
    LOGGER,         \* logger::LOGGER set up and registered with the log crate
    configTable,    \* the firmware configuration table
    rsdp_address,   \* main's rsdp_address
    kernel,         \* the loadable program headers of the kernel image
    loaded,         \* how many program headers load_kernel has mapped
    context,        \* the BootContext / RuntimeContext value
    lastSegment,    \* what the last map_segment call requested, allocated and mapped
    memoryMap,      \* the memory-map size query, the storage reserved and the final map
    locals,         \* main's stack_top, page_table_frame, boot_info
    kernelContext,  \* the KernelContext handed to jump_to_kernel
    panicked        \* where the panic was raised and what the handler did

vars == <<binary, pc, SYSTEM_TABLE, slotWrites, system_table, firmware, gop,
          frame_buffer, LOGGER, configTable, rsdp_address, kernel, loaded,
          context, lastSegment, memoryMap, locals, kernelContext, panicked>>

----------------------------------------------------------------------------
(* Bounds of the model. *)
MaxEntries == 2
MaxSegments == 2
MaxGrowth == 8
MaxPFlags == 7
MapEntries == 64

(* Program constants. *)
PAGE_SIZE == 4096
FIXED_PADDR == 1048576
EXIT_HEADROOM_ENTRIES == 4
LIB_HEADROOM_ENTRIES == 8
MEMORY_DESCRIPTOR_SIZE == 40
ENTRIES_PER_TABLE == 512
FIRST_FREE_FRAME == 1024
KERNEL_BASE_PAGE == 512

None == [some |-> FALSE]
Some(v) == [some |-> TRUE, val |-> v]

Min(a, b) == IF a < b THEN a ELSE b

----------------------------------------------------------------------------
(* Inputs. *)
Binaries == {"uefi-bootloader", "lib"}
Guids == {"ACPI_GUID", "ACPI2_GUID", "OTHER_GUID"}
GopAnswers == {"NoHandle", "OpenFailed", "Rgb", "Bgr", "Bitmask", "BltOnly"}
EntrySizes == {48, 64}

\* A configuration table: entry i carries its own address.
ConfigEntry(i, guid) == [guid |-> guid, address |-> 16 * i]
ConfigTables ==
    UNION { { [i \in 1..n |-> ConfigEntry(i, g[i])] : g \in [1..n -> Guids] }
            : n \in 0..MaxEntries }

Vaddrs == {FIXED_PADDR, 2 * FIXED_PADDR, 2 * FIXED_PADDR + 1, 2 * FIXED_PADDR + PAGE_SIZE - 1}
Memszs == {1, 2, PAGE_SIZE, PAGE_SIZE + 1}
Paddrs == {FIXED_PADDR, 4 * FIXED_PADDR}
Segments == [p_paddr : Paddrs, p_vaddr : Vaddrs, p_memsz : Memszs, p_flags : 0..MaxPFlags]

\* The segments of the kernels that run through the whole of main.
BootSegments ==
    { [p_paddr |-> FIXED_PADDR, p_vaddr |-> FIXED_PADDR, p_memsz |-> PAGE_SIZE, p_flags |-> 5],
      [p_paddr |-> 4 * FIXED_PADDR, p_vaddr |-> 2 * FIXED_PADDR, p_memsz |-> PAGE_SIZE + 1, p_flags |-> 6],
      [p_paddr |-> 4 * FIXED_PADDR, p_vaddr |-> 3 * FIXED_PADDR, p_memsz |-> 2, p_flags |-> 4] }
BootKernels == UNION { [1..n -> BootSegments] : n \in 0..MaxSegments }

----------------------------------------------------------------------------
(* Firmware boot services. *)

\* One call of a boot-services (or console protocol) function, logged with
\* whether boot services were still active when it was made.
Call(fw, name) ==
    [fw EXCEPT !.calls = Append(@, [call |-> name, active |-> fw.boot_services])]

RECURSIVE Calls(_, _)
Calls(fw, names) ==
    IF names = <<>> THEN fw ELSE Calls(Call(fw, Head(names)), Tail(names))

\* BootServices::allocate_pages: a fixed address is granted once; any-address
\* requests are served from the firmware's free memory.  ok = FALSE is the
\* firmware refusing the request.
allocate_pages(fw, allocate_type, num_pages, ok) ==
    LET logged == Call(fw, "allocate_pages")
        granted == ok /\ (allocate_type.kind = "Address" => ~fw.fixed)
    IN  IF ~granted THEN [ok |-> FALSE, fw |-> logged, frame |-> 0]
        ELSE IF allocate_type.kind = "Address"
        THEN [ok |-> TRUE, fw |-> [logged EXCEPT !.fixed = TRUE],
              frame |-> allocate_type.address \div PAGE_SIZE]
        ELSE [ok |-> TRUE, fw |-> [logged EXCEPT !.next = @ + num_pages],
              frame |-> fw.next]

----------------------------------------------------------------------------
(* util / memory *)

calculate_pages(bytes) == (bytes + PAGE_SIZE - 1) \div PAGE_SIZE

containing_address(address) == address \div PAGE_SIZE

\* PageRange / FrameRange: inclusive, iterated in increasing order.
RangeIter(start, end) == [i \in 1..(end - start + 1) |-> start + i - 1]

\* Iterator::zip stops with the shorter iterator.
Zip(a, b) == [i \in 1..Min(Len(a), Len(b)) |-> <<a[i], b[i]>>]

\* The frame allocator a Mapper call is given: UefiFrameAllocator before the
\* transition, LegacyFrameAllocator (a cursor over the snapshot) after it.
RECURSIVE allocate_frames(_, _)
allocate_frames(fa, n) ==
    IF n = 0 THEN fa
    ELSE IF fa.kind = "Uefi"
    THEN allocate_frames(
             [fa EXCEPT !.fw = allocate_pages(fa.fw, [kind |-> "AnyPages"], 1, TRUE).fw], n - 1)
    ELSE allocate_frames([fa EXCEPT !.next = @ + 1], n - 1)

UefiFrameAllocator(fw) == [kind |-> "Uefi", fw |-> fw]

Mapper_new(fw) ==
    LET a == allocate_pages(fw, [kind |-> "AnyPages"], 1, TRUE)
    IN  [fw |-> a.fw, mapper |-> [root |-> a.frame, tables |-> {}, entries |-> {}]]

TableKeys(page) ==
    { <<3, page \div (ENTRIES_PER_TABLE * ENTRIES_PER_TABLE * ENTRIES_PER_TABLE)>>,
      <<2, page \div (ENTRIES_PER_TABLE * ENTRIES_PER_TABLE)>>,
      <<1, page \div ENTRIES_PER_TABLE>> }

\* Mapper::map: extend the table levels that are missing, install the leaf.
Mapper_map(mapper, page, frame, flags, fa) ==
    LET present == { e \in mapper.entries : e.page = page }
        missing == TableKeys(page) \ mapper.tables
    IN  IF present # {}
        THEN [ok |-> \A e \in present : e.frame = frame /\ e.flags = flags,
              mapper |-> mapper, fa |-> fa]
        ELSE [ok |-> TRUE,
              mapper |-> [mapper EXCEPT !.tables = @ \cup missing,
                                        !.entries = @ \cup {[page |-> page, frame |-> frame, flags |-> flags]}],
              fa |-> allocate_frames(fa, Cardinality(missing))]

\* PageAllocator: the ledger of claimed page ranges, each <<first, last>>.
Overlaps(r, s) == r[1] <= s[2] /\ s[1] <= r[2]

SegmentPages(segment) ==
    << containing_address(segment.p_vaddr),
       containing_address(segment.p_vaddr + segment.p_memsz - 1) >>

mark_segment_as_used(page_allocator, segment) ==
    [ok |-> \A r \in page_allocator : ~Overlaps(r, SegmentPages(segment)),
     page_allocator |-> page_allocator \cup {SegmentPages(segment)}]

allocate_range(page_allocator, num_pages) ==
    LET free(p) == \A r \in page_allocator : ~Overlaps(r, <<p, p + num_pages - 1>>)
        last == KERNEL_BASE_PAGE + num_pages + Cardinality(page_allocator) * (num_pages + 2)
        first == CHOOSE p \in KERNEL_BASE_PAGE..last :
                     free(p) /\ \A q \in KERNEL_BASE_PAGE..(p - 1) : ~free(q)
    IN  [range |-> <<first, first + num_pages - 1>>,
         page_allocator |-> page_allocator \cup {<<first, first + num_pages - 1>>}]

PteFlags_new == {}

----------------------------------------------------------------------------
(* main.rs: get_frame_buffer, get_rsdp_address, the panic handler *)

\* A match whose unsupported formats fall through to a supported one.
pixel_format_fallthrough(mode) ==
    IF mode = "Bgr" THEN [panic |-> FALSE, format |-> "Bgr"]
    ELSE [panic |-> FALSE, format |-> "Rgb"]

\* The match on mode_info.pixel_format().
pixel_format(mode) ==
    CASE mode = "Rgb" -> [panic |-> FALSE, format |-> "Rgb"]
      [] mode = "Bgr" -> [panic |-> FALSE, format |-> "Bgr"]
      [] mode \in {"Bitmask", "BltOnly"} -> [panic |-> TRUE, format |-> "unsupported"]

\* The boot-services calls get_frame_buffer makes for a firmware answer.
get_frame_buffer_calls(bin, answer) ==
    IF bin = "lib" THEN <<"open_protocol_exclusive">>
    ELSE IF answer = "NoHandle" THEN <<"get_handle_for_protocol">>
    ELSE <<"get_handle_for_protocol", "open_protocol_exclusive">>

\* Iterator::find on the slice iterator: consumes entries from position pos
\* up to and including the first match, or all of them when none matches.
RECURSIVE find(_, _, _)
find(table, pos, guid) ==
    IF pos > Len(table) THEN [item |-> None, pos |-> pos]
    ELSE IF table[pos].guid = guid THEN [item |-> Some(table[pos]), pos |-> pos + 1]
    ELSE find(table, pos + 1, guid)

get_rsdp_address(table) ==
    LET acpi2_rsdp == find(table, 1, "ACPI2_GUID")
        rsdp == IF acpi2_rsdp.item.some THEN acpi2_rsdp.item
                ELSE find(table, acpi2_rsdp.pos, "ACPI_GUID").item
    IN  IF rsdp.some THEN Some(rsdp.val.address) ELSE None

\* A handler that prints to the console only.
panic_sinks_console_only(slot, logger) ==
    [console |-> slot.some, logger |-> FALSE]

\* The sinks the panic handler writes the diagnostic to.
panic_sinks(slot, logger) ==
    [console |-> slot.some, logger |-> logger.registered]

----------------------------------------------------------------------------
(* context.rs *)

allocate_slice_inner(fw, len, allocate_type, memory_type, ok) ==
    LET num_pages == calculate_pages(len)
        a == allocate_pages(fw, allocate_type, num_pages, ok)
    IN  [ok |-> a.ok, fw |-> a.fw,
         slice |-> [ptr |-> a.frame * PAGE_SIZE, len |-> len],
         request |-> [allocate_type |-> allocate_type, memory_type |-> memory_type,
                      num_pages |-> num_pages]]

allocate_slice(fw, len, memory_type, ok) ==
    allocate_slice_inner(fw, len, [kind |-> "AnyPages"], memory_type, ok)

allocate_byte_slice(fw, len, ty, ok) == allocate_slice(fw, len, ty, ok)

\* open_file_system_root: the calls made up to the first that fails
\* (failed = 0: none fails).
open_file_system_root_calls(failed) ==
    LET all == <<"open_protocol_exclusive", "open_protocol_exclusive",
                 "locate_device_path", "open_protocol_exclusive", "open_volume">>
    IN  IF failed = 0 THEN all ELSE SubSeq(all, 1, failed)

\* Backing memory without the fixed-address case.
segment_slice_any(fw, segment, ok) ==
    allocate_byte_slice(fw, segment.p_memsz, "KERNEL_MEMORY", ok)

\* map_segment, lines 106-116: the backing memory of the segment.
segment_slice(fw, segment, ok) ==
    IF segment.p_paddr = FIXED_PADDR
    THEN allocate_slice_inner(fw, segment.p_memsz,
                              [kind |-> "Address", address |-> FIXED_PADDR],
                              "KERNEL_MEMORY", ok)
    ELSE allocate_byte_slice(fw, segment.p_memsz, "KERNEL_MEMORY", ok)

\* Page flags with the two tested bits exchanged.
segment_flags_swapped(p_flags) ==
    LET present == PteFlags_new \cup {"present"}
        no_execute == IF (p_flags \div 2) % 2 = 0 THEN present \cup {"no_execute"} ELSE present
    IN  IF p_flags % 2 # 0 THEN no_execute \cup {"writable"} ELSE no_execute

\* map_segment, lines 136-146: the page flags of the segment.
segment_flags(p_flags) ==
    LET present == PteFlags_new \cup {"present"}
        no_execute == IF p_flags % 2 = 0 THEN present \cup {"no_execute"} ELSE present
    IN  IF (p_flags \div 2) % 2 # 0 THEN no_execute \cup {"writable"} ELSE no_execute

\* map_segment, lines 120-134: the (page, frame) pairs of the for loop.
segment_pairs(segment, slice) ==
    LET virtual_start == segment.p_vaddr
        virtual_end_inclusive == virtual_start + segment.p_memsz - 1
        physical_start == slice.ptr
        physical_end_inclusive == physical_start + segment.p_memsz - 1
        pages == RangeIter(containing_address(virtual_start),
                           containing_address(virtual_end_inclusive))
        frames == RangeIter(containing_address(physical_start),
                            containing_address(physical_end_inclusive))
    IN  Zip(pages, frames)

\* The for loop of map_segment: one Mapper::map call per pair.
RECURSIVE map_all(_, _, _, _, _)
map_all(mapper, fa, pairs, flags, calls) ==
    IF pairs = <<>> THEN [ok |-> TRUE, mapper |-> mapper, fa |-> fa, calls |-> calls]
    ELSE LET page == Head(pairs)[1]
             frame == Head(pairs)[2]
             m == Mapper_map(mapper, page, frame, flags, fa)
             made == Append(calls, [page |-> page, frame |-> frame, flags |-> flags])
         IN  IF ~m.ok THEN [ok |-> FALSE, mapper |-> m.mapper, fa |-> m.fa, calls |-> made]
             ELSE map_all(m.mapper, m.fa, Tail(pairs), flags, made)

map_segment(ctx, fw, segment, ok) ==
    LET a == segment_slice(fw, segment, ok)
        used == mark_segment_as_used(ctx.page_allocator, segment)
        flags == segment_flags(segment.p_flags)
        m == map_all(ctx.mapper, UefiFrameAllocator(a.fw),
                     segment_pairs(segment, a.slice), flags, <<>>)
        report(allocated, calls, returned) ==
            [segment |-> segment, request |-> a.request, allocated |-> allocated,
             slice |-> a.slice, calls |-> calls, returned |-> returned]
    IN  IF ~a.ok
        THEN [ok |-> FALSE, ctx |-> ctx, fw |-> a.fw, report |-> report(FALSE, <<>>, FALSE)]
        ELSE IF ~used.ok
        THEN [ok |-> FALSE, ctx |-> ctx, fw |-> a.fw, report |-> report(TRUE, <<>>, FALSE)]
        ELSE [ok |-> m.ok,
              ctx |-> [ctx EXCEPT !.page_allocator = used.page_allocator,
                                  !.mapper = m.mapper],
              fw |-> m.fa.fw, report |-> report(TRUE, m.calls, m.ok)]

\* exit_boot_services, line 167.
predicted_map_size(map_size, entry_size) == map_size + (EXIT_HEADROOM_ENTRIES * entry_size)

\* The storage allocated only after the firmware exit call.
exit_boot_services_steps_late == <<"memory_map_size", "exit_boot_services", "allocate_byte_slice">>

\* exit_boot_services, lines 163-175, in program order.
exit_boot_services_steps == <<"memory_map_size", "allocate_byte_slice", "exit_boot_services">>

\* Runs the steps against the firmware.  SystemTable::exit_boot_services
\* fetches the final map into the storage and exits in one call; it fails,
\* leaving boot services active, when the map does not fit.
RECURSIVE run_exit_steps(_, _, _, _, _)
run_exit_steps(fw, steps, storage, alloc_ok, fits) ==
    IF steps = <<>> THEN [status |-> "ok", fw |-> fw]
    ELSE CASE Head(steps) = "memory_map_size" ->
                run_exit_steps(Call(fw, "memory_map_size"), Tail(steps), storage, alloc_ok, fits)
           [] Head(steps) = "allocate_byte_slice" ->
                LET a == allocate_byte_slice(fw, storage, "LOADER_DATA", alloc_ok)
                IN  IF a.ok THEN run_exit_steps(a.fw, Tail(steps), storage, alloc_ok, fits)
                    ELSE [status |-> "allocation failed", fw |-> a.fw]
           [] Head(steps) = "exit_boot_services" ->
                IF fits
                THEN run_exit_steps([Call(fw, "exit_boot_services") EXCEPT !.boot_services = FALSE],
                                    Tail(steps), storage, alloc_ok, fits)
                ELSE [status |-> "buffer too small", fw |-> Call(fw, "exit_boot_services")]

LegacyFrameAllocator_new(memory_map) ==
    [kind |-> "Legacy", memory_map |-> memory_map, next |-> memory_map.free_from]

\* A RuntimeContext built with a fresh allocator and mapper.
RuntimeContext_fresh(ctx, memory_map) ==
    [phase |-> "Runtime",
     page_allocator |-> {},
     frame_allocator |-> [LegacyFrameAllocator_new(memory_map) EXCEPT !.next = @ + 1],
     mapper |-> [root |-> memory_map.free_from, tables |-> {}, entries |-> {}]]

\* exit_boot_services, lines 177-181.
RuntimeContext(ctx, memory_map) ==
    [phase |-> "Runtime",
     page_allocator |-> ctx.page_allocator,
     frame_allocator |-> LegacyFrameAllocator_new(memory_map),
     mapper |-> ctx.mapper]

\* A RuntimeContext step (set_up_mappings, create_boot_info) that claims
\* num_pages pages, takes frames from the snapshot and maps them.
runtime_map(ctx, num_pages) ==
    LET r == allocate_range(ctx.page_allocator, num_pages)
        first == ctx.frame_allocator.next
        fa == [ctx.frame_allocator EXCEPT !.next = @ + num_pages]
        pairs == Zip(RangeIter(r.range[1], r.range[2]), RangeIter(first, first + num_pages - 1))
        m == map_all(ctx.mapper, fa, pairs, {"present", "writable", "no_execute"}, <<>>)
    IN  [ok |-> m.ok, range |-> r.range,
         ctx |-> [ctx EXCEPT !.page_allocator = r.page_allocator,
                             !.mapper = m.mapper, !.frame_allocator = m.fa]]

----------------------------------------------------------------------------
(* The state machine. *)

NoPanic == [at |-> "none", console |-> FALSE, logger |-> FALSE, deref |-> None]

Init ==
    /\ pc = "set_SYSTEM_TABLE"
    /\ SYSTEM_TABLE = None
    /\ slotWrites = <<>>
    /\ system_table = "main"
    /\ firmware = [boot_services |-> TRUE, calls |-> <<>>, next |-> FIRST_FREE_FRAME,
                   fixed |-> FALSE]
    /\ gop = "unasked"
    /\ frame_buffer = None
    /\ LOGGER = [once |-> FALSE, registered |-> FALSE]
    /\ rsdp_address = None
    /\ loaded = 0
    /\ context = [phase |-> "none"]
    /\ lastSegment = None
    /\ memoryMap = [by |-> "none"]
    /\ locals = [stack_top |-> None, page_table_frame |-> None, boot_info |-> None]
    /\ kernelContext = None
    /\ panicked = NoPanic
    /\ \/ binary = "uefi-bootloader" /\ configTable \in ConfigTables /\ kernel \in BootKernels
       \/ binary = "uefi-bootloader" /\ configTable = <<>> /\ kernel \in { <<s>> : s \in Segments }
       \/ binary = "lib" /\ configTable = <<>> /\ kernel = <<>>

\* A panic raised at a statement: control passes to the panic handler.
Raise(at) ==
    /\ pc' = "panic"
    /\ panicked' = [panicked EXCEPT !.at = at]

\* main, lines 41-43.
set_SYSTEM_TABLE ==
    /\ pc = "set_SYSTEM_TABLE"
    /\ SYSTEM_TABLE' = Some("main")
    /\ slotWrites' = Append(slotWrites, Some("main"))
    /\ pc' = "clear_stdout"
    /\ UNCHANGED <<binary, system_table, firmware, gop, frame_buffer, LOGGER, configTable,
                   rsdp_address, kernel, loaded, context, lastSegment, memoryMap, locals,
                   kernelContext, panicked>>

\* main, lines 45-48.
clear_stdout ==
    /\ pc = "clear_stdout"
    /\ firmware' = Call(firmware, "stdout.clear")
    /\ \E ok \in BOOLEAN :
          IF ok THEN pc' = "get_frame_buffer" /\ UNCHANGED panicked
          ELSE Raise("clear_stdout")
    /\ UNCHANGED <<binary, SYSTEM_TABLE, slotWrites, system_table, gop, frame_buffer, LOGGER,
                   configTable, rsdp_address, kernel, loaded, context, lastSegment, memoryMap,
                   locals, kernelContext>>

\* main, line 50: get_frame_buffer.
get_frame_buffer ==
    /\ pc = "get_frame_buffer"
    /\ \E answer \in (IF binary = "lib" THEN GopAnswers \ {"NoHandle"} ELSE GopAnswers) :
          /\ gop' = answer
          /\ firmware' = Calls(firmware, get_frame_buffer_calls(binary, answer))
          /\ IF answer \in {"NoHandle", "OpenFailed"}
             THEN /\ frame_buffer' = None
                  /\ pc' = "clear_SYSTEM_TABLE"
                  /\ UNCHANGED panicked
             ELSE IF pixel_format(answer).panic
             THEN /\ frame_buffer' = None
                  /\ Raise("get_frame_buffer")
             ELSE /\ frame_buffer' = Some([pixel_format |-> pixel_format(answer).format,
                                           bytes_per_pixel |-> 4])
                  /\ pc' = "init_logger"
                  /\ UNCHANGED panicked
    /\ UNCHANGED <<binary, SYSTEM_TABLE, slotWrites, system_table, LOGGER, configTable,
                   rsdp_address, kernel, loaded, context, lastSegment, memoryMap, locals,
                   kernelContext>>

\* main, lines 51-54: init_logger.
init_logger ==
    /\ pc = "init_logger"
    /\ IF LOGGER.registered
       THEN /\ LOGGER' = [LOGGER EXCEPT !.once = TRUE]
            /\ Raise("init_logger")
       ELSE /\ LOGGER' = [once |-> TRUE, registered |-> TRUE]
            /\ pc' = "clear_SYSTEM_TABLE"
            /\ UNCHANGED panicked
    /\ UNCHANGED <<binary, SYSTEM_TABLE, slotWrites, system_table, firmware, gop, frame_buffer,
                   configTable, rsdp_address, kernel, loaded, context, lastSegment, memoryMap,
                   locals, kernelContext>>

\* The slot left as it is.
cleared_slot_stale == SYSTEM_TABLE

\* The value main writes to SYSTEM_TABLE at line 57.
cleared_slot == None

\* main, line 57.
clear_SYSTEM_TABLE ==
    /\ pc = "clear_SYSTEM_TABLE"
    /\ SYSTEM_TABLE' = cleared_slot
    /\ slotWrites' = Append(slotWrites, cleared_slot)
    /\ pc' = IF binary = "lib" THEN "lib_memory_map" ELSE "get_rsdp_address"
    /\ UNCHANGED <<binary, system_table, firmware, gop, frame_buffer, LOGGER, configTable,
                   rsdp_address, kernel, loaded, context, lastSegment, memoryMap, locals,
                   kernelContext, panicked>>

\* main, line 59.
read_rsdp_address ==
    /\ pc = "get_rsdp_address"
    /\ rsdp_address' = get_rsdp_address(configTable)
    /\ pc' = "BootContext_new"
    /\ UNCHANGED <<binary, SYSTEM_TABLE, slotWrites, system_table, firmware, gop, frame_buffer,
                   LOGGER, configTable, kernel, loaded, context, lastSegment, memoryMap, locals,
                   kernelContext, panicked>>

\* main, line 61: BootContext::new takes the system table by value.
BootContext_new ==
    /\ pc = "BootContext_new"
    /\ system_table' = "BootContext"
    /\ \E ok \in BOOLEAN :
          IF ok
          THEN /\ firmware' = Mapper_new(firmware).fw
               /\ context' = [phase |-> "Boot", page_allocator |-> {},
                              mapper |-> Mapper_new(firmware).mapper]
               /\ pc' = "load_kernel"
               /\ UNCHANGED panicked
          ELSE /\ firmware' = Call(firmware, "allocate_pages")
               /\ UNCHANGED context
               /\ Raise("BootContext_new")
    /\ UNCHANGED <<binary, SYSTEM_TABLE, slotWrites, gop, frame_buffer, LOGGER, configTable,
                   rsdp_address, kernel, loaded, lastSegment, memoryMap, locals, kernelContext>>

\* main, line 62: load_kernel opens the boot volume and reads the image.
load_kernel ==
    /\ pc = "load_kernel"
    /\ \E failed \in 0..5 :
          /\ firmware' = Calls(firmware, open_file_system_root_calls(failed))
          /\ IF failed = 0 THEN pc' = "map_segment" /\ UNCHANGED panicked
             ELSE Raise("load_kernel")
    /\ UNCHANGED <<binary, SYSTEM_TABLE, slotWrites, system_table, gop, frame_buffer, LOGGER,
                   configTable, rsdp_address, kernel, loaded, context, lastSegment, memoryMap,
                   locals, kernelContext>>

\* load_kernel: one map_segment call per loadable program header.
load_segment ==
    /\ pc = "map_segment"
    /\ loaded < Len(kernel)
    /\ \E ok \in BOOLEAN :
          LET r == map_segment(context, firmware, kernel[loaded + 1], ok)
          IN  /\ context' = r.ctx
              /\ firmware' = r.fw
              /\ lastSegment' = Some(r.report)
              /\ IF r.ok THEN loaded' = loaded + 1 /\ UNCHANGED <<pc, panicked>>
                 ELSE UNCHANGED loaded /\ Raise("map_segment")
    /\ UNCHANGED <<binary, SYSTEM_TABLE, slotWrites, system_table, gop, frame_buffer, LOGGER,
                   configTable, rsdp_address, kernel, memoryMap, locals, kernelContext>>

\* load_kernel returns the entry point and the ELF sections; main, line 63.
kernel_loaded ==
    /\ pc = "map_segment"
    /\ loaded = Len(kernel)
    /\ pc' = "load_modules"
    /\ UNCHANGED <<binary, SYSTEM_TABLE, slotWrites, system_table, firmware, gop, frame_buffer,
                   LOGGER, configTable, rsdp_address, kernel, loaded, context, lastSegment,
                   memoryMap, locals, kernelContext, panicked>>

\* main, lines 65-67: load_modules reads the modules into firmware memory.
load_modules ==
    /\ pc = "load_modules"
    /\ \E failed \in 0..5, ok \in BOOLEAN :
          LET opened == Calls(firmware, open_file_system_root_calls(failed))
              a == allocate_byte_slice(opened, PAGE_SIZE, "LOADER_DATA", ok)
          IN  IF failed # 0 THEN firmware' = opened /\ Raise("load_modules")
              ELSE /\ firmware' = a.fw
                   /\ IF a.ok THEN pc' = "exit_boot_services" /\ UNCHANGED panicked
                      ELSE Raise("load_modules")
    /\ UNCHANGED <<binary, SYSTEM_TABLE, slotWrites, system_table, gop, frame_buffer, LOGGER,
                   configTable, rsdp_address, kernel, loaded, context, lastSegment, memoryMap,
                   locals, kernelContext>>

\* main, line 69: BootContext::exit_boot_services.
exit_boot_services ==
    /\ pc = "exit_boot_services"
    /\ \E entry_size \in EntrySizes, growth \in 0..MaxGrowth, alloc_ok \in BOOLEAN :
          LET map_size == MapEntries * entry_size
              storage == predicted_map_size(map_size, entry_size)
              final == map_size + growth * entry_size
              r == run_exit_steps(firmware, exit_boot_services_steps, storage, alloc_ok,
                                  final <= storage)
              memory_map == [size |-> final, entry_size |-> entry_size,
                             via |-> Len(r.fw.calls), free_from |-> r.fw.next]
          IN  /\ firmware' = r.fw
              /\ memoryMap' = [by |-> "exit_boot_services", entry_size |-> entry_size,
                               map_size |-> map_size, storage |-> storage,
                               final |-> final, status |-> r.status]
              /\ IF r.status = "ok"
                 THEN /\ context' = RuntimeContext(context, memory_map)
                      /\ system_table' = "exited"
                      /\ pc' = "set_up_mappings"
                      /\ UNCHANGED panicked
                 ELSE /\ UNCHANGED <<context, system_table>>
                      /\ Raise("exit_boot_services")
    /\ UNCHANGED <<binary, SYSTEM_TABLE, slotWrites, gop, frame_buffer, LOGGER, configTable,
                   rsdp_address, kernel, loaded, lastSegment, locals, kernelContext>>

\* main, line 71: set_up_mappings maps the kernel stack and returns its top.
set_up_mappings ==
    /\ pc = "set_up_mappings"
    /\ LET r == runtime_map(context, 1)
       IN  /\ context' = r.ctx
           /\ IF r.ok
              THEN /\ locals' = [locals EXCEPT !.stack_top = Some((r.range[2] + 1) * PAGE_SIZE)]
                   /\ pc' = "page_table"
                   /\ UNCHANGED panicked
              ELSE UNCHANGED locals /\ Raise("set_up_mappings")
    /\ UNCHANGED <<binary, SYSTEM_TABLE, slotWrites, system_table, firmware, gop, frame_buffer,
                   LOGGER, configTable, rsdp_address, kernel, loaded, lastSegment, memoryMap,
                   kernelContext>>

\* main, line 74: RuntimeContext::page_table returns mapper.frame().
page_table ==
    /\ pc = "page_table"
    /\ locals' = [locals EXCEPT !.page_table_frame = Some(context.mapper.root)]
    /\ pc' = "create_boot_info"
    /\ UNCHANGED <<binary, SYSTEM_TABLE, slotWrites, system_table, firmware, gop, frame_buffer,
                   LOGGER, configTable, rsdp_address, kernel, loaded, context, lastSegment,
                   memoryMap, kernelContext, panicked>>

\* main, line 80: create_boot_info places the record in mapped memory.
create_boot_info ==
    /\ pc = "create_boot_info"
    /\ LET r == runtime_map(context, 1)
       IN  /\ context' = r.ctx
           /\ IF r.ok
              THEN /\ locals' = [locals EXCEPT !.boot_info =
                                    Some([at |-> r.range[1] * PAGE_SIZE,
                                          frame_buffer |-> frame_buffer,
                                          rsdp_address |-> rsdp_address,
                                          memory_map |-> context.frame_allocator.memory_map])]
                   /\ pc' = "pre_context_switch_actions"
                   /\ UNCHANGED panicked
              ELSE UNCHANGED locals /\ Raise("create_boot_info")
    /\ UNCHANGED <<binary, SYSTEM_TABLE, slotWrites, system_table, firmware, gop, frame_buffer,
                   LOGGER, configTable, rsdp_address, kernel, loaded, lastSegment, memoryMap,
                   kernelContext>>

\* main, line 84.
pre_context_switch_actions ==
    /\ pc = "pre_context_switch_actions"
    /\ pc' = "jump_to_kernel"
    /\ UNCHANGED <<binary, SYSTEM_TABLE, slotWrites, system_table, firmware, gop, frame_buffer,
                   LOGGER, configTable, rsdp_address, kernel, loaded, context, lastSegment,
                   memoryMap, locals, kernelContext, panicked>>

\* main, lines 86-95: the KernelContext is built and control leaves for the kernel.
jump_to_kernel ==
    /\ pc = "jump_to_kernel"
    /\ kernelContext' = Some([page_table_frame |-> locals.page_table_frame.val,
                              stack_top |-> locals.stack_top.val,
                              boot_info |-> locals.boot_info.val])
    /\ pc' = "kernel"
    /\ UNCHANGED <<binary, SYSTEM_TABLE, slotWrites, system_table, firmware, gop, frame_buffer,
                   LOGGER, configTable, rsdp_address, kernel, loaded, context, lastSegment,
                   memoryMap, locals, panicked>>

\* lib.rs main, lines 46-58: the memory-map buffer and the memory map.
lib_memory_map ==
    /\ pc = "lib_memory_map"
    /\ \E entry_size \in EntrySizes, growth \in 0..MaxGrowth, alloc_ok \in BOOLEAN :
          LET map_size == MapEntries * entry_size
              memory_map_size == map_size + LIB_HEADROOM_ENTRIES * MEMORY_DESCRIPTOR_SIZE
              final == map_size + growth * entry_size
              sized == Calls(firmware, <<"memory_map_size", "allocate_pool">>)
              status == IF ~alloc_ok THEN "allocation failed"
                        ELSE IF final > memory_map_size THEN "buffer too small" ELSE "ok"
          IN  /\ firmware' = IF alloc_ok THEN Call(sized, "memory_map") ELSE sized
              /\ memoryMap' = [by |-> "lib", entry_size |-> entry_size, map_size |-> map_size,
                               storage |-> memory_map_size, final |-> final, status |-> status]
              /\ IF status = "ok" THEN pc' = "lib_load_kernel" /\ UNCHANGED panicked
                 ELSE Raise("lib_memory_map")
    /\ UNCHANGED <<binary, SYSTEM_TABLE, slotWrites, system_table, gop, frame_buffer, LOGGER,
                   configTable, rsdp_address, kernel, loaded, context, lastSegment, locals,
                   kernelContext>>

\* lib.rs main, lines 60-61.
lib_load_kernel ==
    /\ pc = "lib_load_kernel"
    /\ \E failed \in 0..5 :
          /\ firmware' = Calls(firmware, open_file_system_root_calls(failed))
          /\ IF failed = 0 THEN pc' = "lib_panic" /\ UNCHANGED panicked
             ELSE Raise("lib_load_kernel")
    /\ UNCHANGED <<binary, SYSTEM_TABLE, slotWrites, system_table, gop, frame_buffer, LOGGER,
                   configTable, rsdp_address, kernel, loaded, context, lastSegment, memoryMap,
                   locals, kernelContext>>

\* lib.rs main, line 63: panic!().
lib_panic ==
    /\ pc = "lib_panic"
    /\ Raise("lib_main")
    /\ UNCHANGED <<binary, SYSTEM_TABLE, slotWrites, system_table, firmware, gop, frame_buffer,
                   LOGGER, configTable, rsdp_address, kernel, loaded, context, lastSegment,
                   memoryMap, locals, kernelContext>>

\* The panic handler up to arch::halt().
panic ==
    /\ pc = "panic"
    /\ LET sinks == panic_sinks(SYSTEM_TABLE, LOGGER)
       IN  /\ firmware' = IF sinks.console THEN Call(firmware, "stdout.write") ELSE firmware
           /\ panicked' = [panicked EXCEPT
                             !.console = sinks.console,
                             !.logger = sinks.logger,
                             !.deref = IF sinks.console
                                       THEN Some([system_table |-> system_table,
                                                  boot_services |-> firmware.boot_services])
                                       ELSE None]
    /\ pc' = "halted"
    /\ UNCHANGED <<binary, SYSTEM_TABLE, slotWrites, system_table, gop, frame_buffer, LOGGER,
                   configTable, rsdp_address, kernel, loaded, context, lastSegment, memoryMap,
                   locals, kernelContext>>

\* arch::halt(): the idle loop.
halt ==
    /\ pc = "halted"
    /\ UNCHANGED vars

Next ==
    \/ set_SYSTEM_TABLE
    \/ clear_stdout
    \/ get_frame_buffer
    \/ init_logger
    \/ clear_SYSTEM_TABLE
    \/ read_rsdp_address
    \/ BootContext_new
    \/ load_kernel
    \/ load_segment
    \/ kernel_loaded
    \/ load_modules
    \/ exit_boot_services
    \/ set_up_mappings
    \/ page_table
    \/ create_boot_info
    \/ pre_context_switch_actions
    \/ jump_to_kernel
    \/ lib_memory_map
    \/ lib_load_kernel
    \/ lib_panic
    \/ panic
    \/ halt

Spec == Init /\ [][Next]_vars

----------------------------------------------------------------------------
(* The claims. *)

PageOf(address) == address \div PAGE_SIZE

HasBit(value, bit) == \E q \in 0..value, r \in 0..(bit - 1) : value = 2 * bit * q + bit + r

\* C1: with the storage reserved for the memory map (claimed to be at least
\* map_size + 8 * entry_size) the transition succeeds whenever the final map
\* grew by fewer than 8 entries, and it ends in a fatal error whenever the
\* final map exceeds the reserved storage.
C1_EightEntriesOfHeadroom ==
    memoryMap.by = "exit_boot_services" =>
        /\ (/\ memoryMap.final - memoryMap.map_size < 8 * memoryMap.entry_size
            /\ memoryMap.status # "allocation failed") => context.phase = "Runtime"
        /\ memoryMap.final > memoryMap.storage =>
               context.phase # "Runtime" /\ pc \in {"panic", "halted"}

\* C2: get_rsdp_address returns the address of an ACPI 2.x entry when there is
\* one, otherwise the address of an ACPI 1.x entry when there is one, and None
\* only when the table holds neither.
C2_RsdpPrefersAcpi2ThenAcpi1 ==
    pc = "BootContext_new" =>
        LET addresses(guid) ==
                { configTable[i].address : i \in { j \in 1..Len(configTable) :
                                                     configTable[j].guid = guid } }
        IN  IF addresses("ACPI2_GUID") # {}
            THEN rsdp_address.some /\ rsdp_address.val \in addresses("ACPI2_GUID")
            ELSE IF addresses("ACPI_GUID") # {}
            THEN rsdp_address.some /\ rsdp_address.val \in addresses("ACPI_GUID")
            ELSE rsdp_address = None

\* C3: every firmware call is made while boot services are active, so before
\* the firmware exit call; the snapshot comes from that exit call, which is
\* the last firmware call of the execution.
C3_FirmwareCallsPrecedeExit ==
    /\ \A i \in 1..Len(firmware.calls) : firmware.calls[i].active
    /\ ~firmware.boot_services => context.phase = "Runtime"
    /\ context.phase = "Runtime" =>
           LET via == context.frame_allocator.memory_map.via
           IN  /\ ~firmware.boot_services
               /\ via = Len(firmware.calls)
               /\ firmware.calls[via].call = "exit_boot_services"
               /\ \A i \in 1..(via - 1) : firmware.calls[i].call # "exit_boot_services"
               /\ via >= 3
               /\ firmware.calls[via - 2].call = "memory_map_size"
               /\ firmware.calls[via - 1].call = "allocate_pages"

C3_Witness ==
    /\ pc = "kernel"
    /\ loaded = 2
    /\ kernelContext.some
    /\ LOGGER.registered
    /\ Len(firmware.calls) > 10

\* C4: a Bitmask or BltOnly framebuffer is fatal inside get_frame_buffer, with
\* no logger set up, no Mapper, no segment allocated or mapped and no jump;
\* without a framebuffer the boot goes on with no logger.
C4_UnsupportedPixelFormatIsFatal ==
    /\ gop \in {"Bitmask", "BltOnly"} =>
           /\ pc \in {"panic", "halted"}
           /\ panicked.at = "get_frame_buffer"
           /\ ~LOGGER.once /\ ~LOGGER.registered /\ ~panicked.logger
           /\ context.phase = "none"
           /\ lastSegment = None
           /\ \A i \in 1..Len(firmware.calls) : firmware.calls[i].call # "allocate_pages"
           /\ kernelContext = None
    /\ gop \in {"NoHandle", "OpenFailed"} =>
           /\ frame_buffer = None
           /\ ~LOGGER.once /\ ~LOGGER.registered
           /\ panicked.at \notin {"get_frame_buffer", "init_logger"}
           /\ pc # "init_logger"

C4_Witness ==
    /\ gop = "BltOnly"
    /\ pc = "halted"
    /\ panicked.console

\* C5 as claimed: the handler writes to the console whenever boot services are
\* still available and to the logger whenever it is initialised, then halts
\* for good.
C5_ConsoleWhileBootServices ==
    [][ /\ pc' = "halted" =>
              /\ firmware'.boot_services => panicked'.console
              /\ LOGGER'.registered => panicked'.logger
        /\ pc = "halted" => pc' = "halted" ]_vars

\* C5 amended: the handler writes to the console exactly when SYSTEM_TABLE is
\* still set (the panic was raised before main cleared it) and to the logger
\* exactly when it is initialised, then halts for good.
C5_ConsoleWhileSlotSet ==
    [][ /\ pc' = "halted" =>
              /\ pc = "panic"
              /\ panicked'.console = SYSTEM_TABLE'.some
              /\ SYSTEM_TABLE'.some = (Len(slotWrites') = 1)
              /\ panicked'.console =>
                     firmware'.calls[Len(firmware'.calls)].call = "stdout.write"
              /\ ~panicked'.console => firmware' = firmware
              /\ panicked'.logger = LOGGER'.registered
              /\ LOGGER'.registered = frame_buffer'.some
        /\ pc = "halted" => pc' = "halted" /\ UNCHANGED vars ]_vars

C5_Witness ==
    /\ pc = "halted"
    /\ firmware.boot_services
    /\ system_table = "BootContext"
    /\ ~panicked.console
    /\ panicked.logger

\* C6: present is always set, writable is set iff the write bit (0x2) is set,
\* no-execute is set iff the execute bit (0x1) is clear, and every page of a
\* segment gets the same flags.
C6_FlagsFollowSegmentBits ==
    lastSegment.some =>
        LET s == lastSegment.val
        IN  \A i \in 1..Len(s.calls) :
                /\ "present" \in s.calls[i].flags
                /\ ("writable" \in s.calls[i].flags) = HasBit(s.segment.p_flags, 2)
                /\ ("no_execute" \in s.calls[i].flags) = ~HasBit(s.segment.p_flags, 1)
                /\ s.calls[i].flags = s.calls[1].flags
                /\ \E e \in context.mapper.entries :
                       e.page = s.calls[i].page /\ e.flags = s.calls[i].flags

C6_Witness ==
    /\ lastSegment.some
    /\ lastSegment.val.segment.p_flags = 3
    /\ Len(lastSegment.val.calls) = 2
    /\ lastSegment.val.calls[2].flags = {"present", "writable"}

\* C7: map_segment maps every page from the page of p_vaddr to the page of
\* p_vaddr + p_memsz - 1, once each and in increasing order, the i-th page to
\* the i-th frame of the allocation.
C7_EveryPageOfTheSegmentMapped ==
    (lastSegment.some /\ lastSegment.val.returned) =>
        LET s == lastSegment.val
            first == PageOf(s.segment.p_vaddr)
            last == PageOf(s.segment.p_vaddr + s.segment.p_memsz - 1)
            base == PageOf(s.slice.ptr)
        IN  /\ Len(s.calls) = last - first + 1
            /\ \A i \in 1..Len(s.calls) :
                   /\ s.calls[i].page = first + i - 1
                   /\ s.calls[i].frame = base + i - 1
                   /\ i <= s.request.num_pages

\* C8 as claimed: a segment with p_paddr 0x10_0000 is allocated at exactly
\* 0x10_0000 and identity mapped; any other segment is backed by any-address
\* kernel-typed memory.
C8_FixedSegmentIdentityMapped ==
    lastSegment.some =>
        LET s == lastSegment.val
        IN  IF s.segment.p_paddr = FIXED_PADDR
            THEN /\ s.request.allocate_type = [kind |-> "Address", address |-> FIXED_PADDR]
                 /\ \A i \in 1..Len(s.calls) : s.calls[i].page = s.calls[i].frame
            ELSE /\ s.request.allocate_type = [kind |-> "AnyPages"]
                 /\ s.request.memory_type = "KERNEL_MEMORY"

\* C8 amended: a segment with p_paddr 0x10_0000 is allocated at exactly
\* 0x10_0000 and its pages, counted from the page of p_vaddr, are mapped to
\* the frames counted from 0x10_0000, which are identity mappings exactly
\* when p_vaddr lies in the page at 0x10_0000; any other segment is backed by
\* any-address kernel-typed memory.
C8_FixedSegmentAtFixedFrames ==
    lastSegment.some =>
        LET s == lastSegment.val
            first == PageOf(s.segment.p_vaddr)
        IN  IF s.segment.p_paddr = FIXED_PADDR
            THEN /\ s.request.allocate_type = [kind |-> "Address", address |-> FIXED_PADDR]
                 /\ s.request.memory_type = "KERNEL_MEMORY"
                 /\ s.allocated => s.slice.ptr = FIXED_PADDR
                 /\ \A i \in 1..Len(s.calls) :
                        /\ s.calls[i].page = first + i - 1
                        /\ s.calls[i].frame = PageOf(FIXED_PADDR) + i - 1
                        /\ (s.calls[i].page = s.calls[i].frame) = (first = PageOf(FIXED_PADDR))
            ELSE /\ s.request.allocate_type = [kind |-> "AnyPages"]
                 /\ s.request.memory_type = "KERNEL_MEMORY"
                 /\ s.allocated => s.slice.ptr # FIXED_PADDR

C8_Witness ==
    /\ lastSegment.some
    /\ lastSegment.val.segment.p_paddr = FIXED_PADDR
    /\ lastSegment.val.segment.p_vaddr = FIXED_PADDR
    /\ Len(lastSegment.val.calls) = 2
    /\ lastSegment.val.calls[2].page = lastSegment.val.calls[2].frame

\* C9: the transition hands the page allocator and the mapper over unchanged
\* and ends the BootContext; the root frame is the one BootContext::new made,
\* through to the KernelContext.
C9_TransitionCarriesAllocatorAndMapper ==
    [][ /\ (pc = "exit_boot_services" /\ pc' = "set_up_mappings") =>
              /\ context.phase = "Boot" /\ context'.phase = "Runtime"
              /\ context'.page_allocator = context.page_allocator
              /\ context'.mapper = context.mapper
              /\ system_table = "BootContext" /\ system_table' = "exited"
        /\ context.phase = "Runtime" => context'.phase = "Runtime"
        /\ context.phase = "none" /\ context'.phase # "none" =>
              /\ pc = "BootContext_new"
              /\ context'.phase = "Boot"
              /\ context'.mapper.root = FIRST_FREE_FRAME
        /\ (context.phase # "none" /\ context'.phase # "none") =>
              /\ context'.mapper.root = context.mapper.root
              /\ context.mapper.entries \subseteq context'.mapper.entries
              /\ context.page_allocator \subseteq context'.page_allocator
        /\ kernelContext'.some =>
              kernelContext'.val.page_table_frame = context'.mapper.root ]_vars

C9_Witness ==
    /\ pc = "set_up_mappings"
    /\ context.phase = "Runtime"
    /\ Cardinality(context.page_allocator) = 2
    /\ Cardinality(context.mapper.entries) = 3
    /\ system_table = "exited"

====
